---- MODULE Spec2Model ----
\* Model of the Cerebro MCP server's dependency workflow: main and LoadConfig,
\* ServeHTTP and the tool handlers, ProjectService.GetProjectDependencies, its
\* fan-out/join resolver fetchDependenciesAsync, the catalog client
\* CerebroClient.makeRequest, and the channel-based resolver of the original
\* handler.
\*
\* Go slices are sequences (slot index+1 holds Go element index), Go pointers
\* and error values are sequences of length 0 (nil) or 1 (set).
EXTENDS Integers, Sequences, FiniteSets, TLC

VARIABLES
    env,          \* the process environment: CEREBRO_TOKEN and HTTP_MODE
    config,       \* the *Config LoadConfig returned (pointer-like)
    proc,         \* the process: "main", "fatal" (log.Fatalf) or "serving"
    inbound,      \* the inbound HTTP request's own context: "open" or "aborted"
    writers,      \* per slot of results: the units that have written it
    catalog,      \* per edge: the answer the catalog gives to its lookup
    chPc,         \* original handler: "idle", "launch", "collect" or "done"
    chLoopI,      \* original handler: iterations of its launch loop already run
    chUnit,       \* original handler, per goroutine: its position
    chResults,    \* original handler: the buffered channel results
    chCollectI,   \* original handler: messages its collector has received
    chCollected,  \* original handler: the slice dependencyResults its collector fills
    chGot,        \* original handler: the indices its collector has received
    chFirst,      \* original handler: the index its collector received first
    mode,         \* "http" (ServeHTTP) or "stdio" (MCP framework)
    httpReq,      \* the inbound HTTP request: method and whether its body is JSON
    tool,         \* the tool the request names
    arguments,    \* the project_permalink entry of the tool arguments
    toolRet,      \* return value of the tool handler
    httpResp,     \* the HTTP response written by ServeHTTP
    rootAnswered, \* the answer the root request got (NoAnswer once the context had ended)
    rootCtxAt,    \* state of the caller's context when the root request ended
    permalink,    \* argument of GetProjectDependencies (a sequence of characters)
    catalogDeps,  \* project_dependencies the catalog holds for the root query
    ctxKind,      \* "background" (never canceled) or "cancellable"
    ctxState,     \* "active", "canceled" or "deadline"
    pc,           \* position of the calling goroutine
    rootCalls,    \* number of root catalog requests issued
    project,      \* response.Projects[0] of the root lookup (pointer-like)
    dependencies, \* relevantDependencies handed to fetchDependenciesAsync
    results,      \* results slice of fetchDependenciesAsync
    wg,           \* sync.WaitGroup counter
    loopI,        \* number of iterations of the launch loop already run
    unit,         \* per goroutine: "unlaunched", "spawned", "request", "done"
    issued,       \* per goroutine: the catalog queries it has issued
    answered,     \* per goroutine: the answer its request got (NoAnswer once the context had ended)
    ctxAt,        \* per goroutine: state of the caller's context when its request ended
    firstDone,    \* index of the unit that finished first
    atCancel,     \* snapshot taken when the context ended
    fetched,      \* return value of fetchDependenciesAsync
    ret           \* return value of GetProjectDependencies

bootVars == <<env, config, proc>>

chanVars == <<catalog, chPc, chLoopI, chUnit, chResults, chCollectI,
              chCollected, chGot, chFirst>>

vars == <<bootVars, inbound, writers, chanVars, mode, httpReq, tool, arguments, toolRet, httpResp, rootAnswered,
          rootCtxAt, permalink, catalogDeps, ctxKind, ctxState, pc, rootCalls, project,
          dependencies, results, wg, loopI, unit, issued, answered, ctxAt,
          firstDone, atCancel, fetched, ret>>

\* ---------------------------------------------------------------- bounds
MaxDeps == 3

\* Longest edge list handed to the two resolvers run side by side.
MaxChanDeps == 2

\* ---------------------------------------------------------------- values
Nil == <<>>

RootID == 1
RootPermalink == <<"c", "l">>

Permalinks == {RootPermalink, <<"x">>, <<>>, <<" ">>, <<" ", "c">>}

Project(id, name) ==
    [ID |-> id, Name |-> name, Permalink |-> name, Description |-> "d"]

RootProject == Project(RootID, "cl")

\* ProjectDependency values of the catalog. IDs are unique per position; the
\* providing ids repeat (positions 1 and 3 both name project 8).
EdgeKinds == {"own", "foreign"}

ProvidingAt(pos) == IF pos % 2 = 1 THEN 8 ELSE IF pos % 4 = 2 THEN 999 ELSE 10

Edge(pos, kind) ==
    [ID |-> 100 + pos,
     DependentProjectID |-> IF kind = "foreign" THEN 2 ELSE RootID,
     ProvidingProjectID |-> ProvidingAt(pos),
     Optional |-> (pos % 2 = 0),
     Description |-> IF pos % 2 = 1 THEN "uses" ELSE ""]

EdgeLists ==
    UNION {{[p \in 1..n |-> Edge(p, ks[p])] : ks \in [1..n -> EdgeKinds]}
           : n \in 0..MaxDeps}

\* The zero value of dependencyResult, as make([]dependencyResult, n) yields.
ZeroDep ==
    [ID |-> 0, DependentProjectID |-> 0, ProvidingProjectID |-> 0,
     Optional |-> FALSE, Description |-> ""]

ZeroResult == [index |-> 0, dep |-> ZeroDep, providingProject |-> Nil, err |-> Nil]

\* ---------------------------------------------------------------- configuration
\* os.Getenv gives "" for a variable that is unset or empty.
Envs ==
    [CEREBRO_TOKEN : {"", "tok"}, HTTP_MODE : {"", "true", "1"}]

\* A loader that accepts an empty token.
LoadConfigNoCheck(e) ==
    [config |-> <<[CerebroToken |-> e.CEREBRO_TOKEN,
                   HTTPMode |-> (e.HTTP_MODE = "true")]>>,
     err |-> Nil]

\* LoadConfig: the (*Config, error) pair it returns in environment e.
LoadConfig(e) ==
    IF e.CEREBRO_TOKEN = ""
    THEN [config |-> Nil,
          err |-> <<"CEREBRO_TOKEN environment variable is required">>]
    ELSE [config |-> <<[CerebroToken |-> e.CEREBRO_TOKEN,
                        HTTPMode |-> (e.HTTP_MODE = "true")]>>,
          err |-> Nil]

\* ---------------------------------------------------------------- catalog client
\* What the network and the catalog do with one GET: the transport outcome,
\* whether the body can be read, the status code, whether the body is JSON,
\* and the decoded lists.
Answer(transport, read, status, json, projects, deps) ==
    [transport |-> transport, read |-> read, StatusCode |-> status,
     json |-> json, Projects |-> projects, ProjectDependencies |-> deps]

\* The request was given up before any answer arrived.
NoAnswer == Answer("aborted", "ok", 0, "ok", <<>>, <<>>)

\* How the network and the catalog can treat the query search[id]=<id> of one
\* dependency lookup: the catalog finds the project, finds nothing, answers
\* with an error status, the connection fails, or the client's own Timeout
\* passes.
DepAnswers(id) ==
         {Answer("ok", "ok", 200, "ok", <<Project(id, "p"), Project(77, "q")>>, <<>>),
          Answer("ok", "ok", 200, "ok", <<>>, <<>>),
          Answer("ok", "ok", 500, "ok", <<Project(id, "p")>>, <<>>),
          Answer("error", "ok", 0, "ok", <<>>, <<>>),
          Answer("timeout", "ok", 0, "ok", <<>>, <<>>)}

\* Answers to the root query search[permalink]=<permalink>.
RootAnswers(pl, deps) ==
    {Answer("ok", "ok", 200, "ok",
            IF pl = RootPermalink THEN <<RootProject>> ELSE <<>>,
            IF pl = RootPermalink THEN deps ELSE <<>>),
     Answer("ok", "ok", 404, "ok", <<RootProject>>, deps),
     Answer("ok", "error", 200, "ok", <<>>, <<>>),
     Answer("ok", "ok", 200, "bad", <<>>, <<>>),
     Answer("ok", "ok", 503, "bad", <<>>, <<>>),
     Answer("error", "ok", 0, "ok", <<>>, <<>>)}

WrapErr(msg, cause) == <<[kind |-> "wrapped", msg |-> msg, cause |-> cause]>>

APIError(status) == <<[kind |-> "APIError", StatusCode |-> status]>>

\* A client that parses the body before it looks at the status code.
RespondParseFirst(a) ==
    IF a.transport # "ok"
    THEN [resp |-> Nil, err |-> WrapErr("failed to execute request", a.transport)]
    ELSE IF a.read # "ok"
    THEN [resp |-> Nil, err |-> WrapErr("failed to read response", a.read)]
    ELSE IF a.json # "ok"
    THEN [resp |-> Nil, err |-> WrapErr("failed to parse JSON response", a.json)]
    ELSE IF a.StatusCode < 200 \/ a.StatusCode >= 300
    THEN [resp |-> Nil, err |-> APIError(a.StatusCode)]
    ELSE [resp |-> <<[Projects |-> a.Projects,
                      ProjectDependencies |-> a.ProjectDependencies]>>,
          err |-> Nil]

\* A client that parses the body whatever the status code.
RespondNoStatusCheck(a) ==
    IF a.transport # "ok"
    THEN [resp |-> Nil, err |-> WrapErr("failed to execute request", a.transport)]
    ELSE IF a.read # "ok"
    THEN [resp |-> Nil, err |-> WrapErr("failed to read response", a.read)]
    ELSE IF a.json # "ok"
    THEN [resp |-> Nil, err |-> WrapErr("failed to parse JSON response", a.json)]
    ELSE [resp |-> <<[Projects |-> a.Projects,
                      ProjectDependencies |-> a.ProjectDependencies]>>,
          err |-> Nil]

\* Lines 91-114: what the client makes of the catalog's answer.
Respond(a) ==
    IF a.transport # "ok"
    THEN [resp |-> Nil, err |-> WrapErr("failed to execute request", a.transport)]
    ELSE IF a.read # "ok"
    THEN [resp |-> Nil, err |-> WrapErr("failed to read response", a.read)]
    ELSE IF a.StatusCode < 200 \/ a.StatusCode >= 300
    THEN [resp |-> Nil, err |-> APIError(a.StatusCode)]
    ELSE IF a.json # "ok"
    THEN [resp |-> Nil, err |-> WrapErr("failed to parse JSON response", a.json)]
    ELSE [resp |-> <<[Projects |-> a.Projects,
                      ProjectDependencies |-> a.ProjectDependencies]>>,
          err |-> Nil]

\* A client that builds its request without the caller's context.
makeRequestNoCtx(ctx, a) == Respond(a)

\* CerebroClient.makeRequest: the (response, error) pair it returns when the
\* request context is in state ctx and the catalog's answer is a. A request
\* whose context has ended fails in Do, whatever the catalog would answer.
makeRequest(ctx, a) ==
    IF ctx # "active"
    THEN [resp |-> Nil, err |-> WrapErr("failed to execute request", ctx)]
    ELSE Respond(a)

\* What ended a request: the context, the client's own Timeout, or the catalog.
StopCause(ctx, a) ==
    IF ctx # "active" THEN "ctx"
    ELSE IF a.transport = "timeout" THEN "timeout"
    ELSE "answer"

\* ---------------------------------------------------------------- validation
IsSpace(c) == c \in {" ", "\t", "\n"}

RECURSIVE TrimLeft(_)
TrimLeft(s) ==
    IF s # <<>> /\ IsSpace(Head(s)) THEN TrimLeft(Tail(s)) ELSE s

RECURSIVE TrimRight(_)
TrimRight(s) ==
    IF s # <<>> /\ IsSpace(s[Len(s)])
    THEN TrimRight(SubSeq(s, 1, Len(s) - 1)) ELSE s

TrimSpace(s) == TrimRight(TrimLeft(s))

ValidationError(field, message) ==
    <<[kind |-> "ValidationError", Field |-> field, Message |-> message]>>

\* A validator that compares with "" without trimming.
ValidateProjectPermalinkNoTrim(pl) ==
    IF pl = <<>>
    THEN ValidationError("project_permalink", "cannot be empty")
    ELSE Nil

ValidateProjectPermalink(pl) ==
    IF TrimSpace(pl) = <<>>
    THEN ValidationError("project_permalink", "cannot be empty")
    ELSE Nil

\* An error that names the trimmed permalink instead of the requested one.
ProjectNotFoundErrorTrimmed(pl) ==
    <<[kind |-> "ProjectNotFoundError", Permalink |-> TrimSpace(pl)]>>

ProjectNotFoundError(pl) == <<[kind |-> "ProjectNotFoundError", Permalink |-> pl]>>

\* ---------------------------------------------------------------- service
\* A filter that prepends each kept edge.
RECURSIVE filterDependenciesReversed(_, _)
filterDependenciesReversed(deps, projectID) ==
    IF deps = <<>> THEN <<>>
    ELSE IF Head(deps).DependentProjectID = projectID
         THEN filterDependenciesReversed(Tail(deps), projectID) \o <<Head(deps)>>
         ELSE filterDependenciesReversed(Tail(deps), projectID)

RECURSIVE filterDependencies(_, _)
filterDependencies(deps, projectID) ==
    IF deps = <<>> THEN <<>>
    ELSE IF Head(deps).DependentProjectID = projectID
         THEN <<Head(deps)>> \o filterDependencies(Tail(deps), projectID)
         ELSE filterDependencies(Tail(deps), projectID)

\* make([]dependencyResult, 0, n): capacity n, length 0
MakeResultsCapacityOnly(n) == <<>>

\* make([]dependencyResult, n)
MakeResults(n) == [k \in 1..n |-> ZeroResult]

\* A unit that stores a placeholder project next to the error.
UnitResultPlaceholder(index, dependency, mr) ==
    IF mr.err # Nil
    THEN [index |-> index, dep |-> dependency,
          providingProject |-> <<Project(0, "")>>, err |-> mr.err]
    ELSE IF Len(mr.resp[1].Projects) = 0
    THEN [index |-> index, dep |-> dependency, providingProject |-> Nil,
          err |-> Nil]
    ELSE [index |-> index, dep |-> dependency,
          providingProject |-> <<mr.resp[1].Projects[1]>>, err |-> Nil]

\* A unit that takes the last returned project instead of the first.
UnitResultLast(index, dependency, mr) ==
    IF mr.err # Nil
    THEN [index |-> index, dep |-> dependency, providingProject |-> Nil,
          err |-> mr.err]
    ELSE IF Len(mr.resp[1].Projects) = 0
    THEN [index |-> index, dep |-> dependency, providingProject |-> Nil,
          err |-> Nil]
    ELSE [index |-> index, dep |-> dependency,
          providingProject |-> <<mr.resp[1].Projects[Len(mr.resp[1].Projects)]>>,
          err |-> Nil]

\* A unit that reports a request ended by the context as "not found".
UnitResultSwallow(index, dependency, mr) ==
    IF mr.err # Nil /\ mr.err[1].kind = "wrapped"
       /\ mr.err[1].cause \in {"canceled", "deadline"}
    THEN [index |-> index, dep |-> dependency, providingProject |-> Nil,
          err |-> Nil]
    ELSE IF mr.err # Nil
    THEN [index |-> index, dep |-> dependency, providingProject |-> Nil,
          err |-> mr.err]
    ELSE IF Len(mr.resp[1].Projects) = 0
    THEN [index |-> index, dep |-> dependency, providingProject |-> Nil,
          err |-> Nil]
    ELSE [index |-> index, dep |-> dependency,
          providingProject |-> <<mr.resp[1].Projects[1]>>, err |-> Nil]

\* The dependencyResult a unit builds from what makeRequest returned to it.
UnitResult(index, dependency, mr) ==
    IF mr.err # Nil
    THEN [index |-> index, dep |-> dependency, providingProject |-> Nil,
          err |-> mr.err]
    ELSE IF Len(mr.resp[1].Projects) = 0
    THEN [index |-> index, dep |-> dependency, providingProject |-> Nil,
          err |-> Nil]
    ELSE [index |-> index, dep |-> dependency,
          providingProject |-> <<mr.resp[1].Projects[1]>>, err |-> Nil]

\* Abort on first error: the lookups run under a derived context that is
\* canceled as soon as one unit has stored a failure.
LookupCtxAbortOnError(ctx, rs) ==
    IF \E k \in 1..Len(rs) : rs[k].err # Nil THEN "canceled" ELSE ctx

\* A derived context that is canceled once a unit was stopped by the
\* client's Timeout.
LookupCtxAbortOnTimeout(ctx, rs) ==
    IF \E k \in 1..Len(rs) :
          rs[k].err # Nil /\ rs[k].err[1].kind = "wrapped"
          /\ rs[k].err[1].cause = "timeout"
    THEN "canceled" ELSE ctx

\* The context a unit hands to makeRequest: the caller's ctx itself, whatever
\* the other units have stored so far.
LookupCtx(ctx, rs) == ctx

\* Every unit writes slot 0.
SlotWriteShared(rs, index, value) == [rs EXCEPT ![1] = value]

\* Results stored in arrival order from the end: the last slot still unwritten.
SlotWriteLastFree(rs, index, value) ==
    LET free == {k \in 1..Len(rs) : rs[k].dep.ID = 0} IN
    IF free = {} THEN rs
    ELSE [rs EXCEPT ![CHOOSE k \in free : \A j \in free : k >= j] = value]

\* Results stored in arrival order: the first slot still unwritten.
SlotWriteArrival(rs, index, value) ==
    LET free == {k \in 1..Len(rs) : rs[k].dep.ID = 0} IN
    IF free = {} THEN rs
    ELSE [rs EXCEPT ![CHOOSE k \in free : \A j \in free : k <= j] = value]

\* results[index] = value
SlotWrite(rs, index, value) == [rs EXCEPT ![index + 1] = value]

\* A join that is released while one unit is still running.
WaitReleasedEarly(counter) == counter <= 1

\* wg.Wait() returns
WaitReleased(counter) == counter = 0

\* A query keyed by the edge's own id instead of the providing project's.
DepQueryByDepID(dependency) ==
    [searchKey |-> "id", searchValue |-> dependency.ID]

\* The query of a dependency lookup.
DepQuery(dependency) ==
    [searchKey |-> "id", searchValue |-> dependency.ProvidingProjectID]

\* A formatter that tests the project pointer before the error.
FormatItemNilFirst(i, res) ==
    IF res.providingProject = Nil
    THEN [n |-> i, kind |-> "notfound", id |-> res.dep.ProvidingProjectID,
          err |-> Nil, name |-> "", depID |-> res.dep.ID,
          optional |-> res.dep.Optional, description |-> ""]
    ELSE IF res.err # Nil
    THEN [n |-> i, kind |-> "error", id |-> res.dep.ProvidingProjectID,
          err |-> res.err, name |-> "", depID |-> 0, optional |-> FALSE,
          description |-> ""]
    ELSE [n |-> i, kind |-> "project", id |-> res.dep.ProvidingProjectID,
          err |-> Nil, name |-> res.providingProject[1].Name,
          depID |-> res.dep.ID, optional |-> res.dep.Optional,
          description |-> res.dep.Description]

\* One numbered item of the rendered report (lines 183-211).
FormatItem(i, res) ==
    IF res.err # Nil
    THEN [n |-> i, kind |-> "error", id |-> res.dep.ProvidingProjectID,
          err |-> res.err, name |-> "", depID |-> 0, optional |-> FALSE,
          description |-> ""]
    ELSE IF res.providingProject = Nil
    THEN [n |-> i, kind |-> "notfound", id |-> res.dep.ProvidingProjectID,
          err |-> Nil, name |-> "", depID |-> res.dep.ID,
          optional |-> res.dep.Optional, description |-> ""]
    ELSE [n |-> i, kind |-> "project", id |-> res.dep.ProvidingProjectID,
          err |-> Nil, name |-> res.providingProject[1].Name,
          depID |-> res.dep.ID, optional |-> res.dep.Optional,
          description |-> res.dep.Description]

formatDependencies(proj, dependencyResults) ==
    [header |-> <<proj.Name, proj.ID, proj.Permalink, proj.Description>>,
     count |-> Len(dependencyResults),
     items |-> [k \in 1..Len(dependencyResults) |->
                   FormatItem(k, dependencyResults[k])]]

NoDependenciesText(proj) ==
    [header |-> <<proj.Name>>, count |-> 0, items |-> <<>>, none |-> TRUE]

\* A return that escalates the first dependency failure.
DependenciesReturnFirstErr(proj, relevant, dependencyResults) ==
    LET failed == {k \in 1..Len(dependencyResults) :
                     dependencyResults[k].err # Nil} IN
    IF failed # {}
    THEN [result |-> Nil,
          err |-> dependencyResults[CHOOSE k \in failed :
                                       \A j \in failed : k <= j].err]
    ELSE [result |-> <<[Project |-> proj, ProjectDependencies |-> relevant,
                        FormattedText |-> formatDependencies(proj, dependencyResults)]>>,
          err |-> Nil]

\* The value GetProjectDependencies returns after the join.
DependenciesReturn(proj, relevant, dependencyResults) ==
    [result |-> <<[Project |-> proj, ProjectDependencies |-> relevant,
                   FormattedText |-> formatDependencies(proj, dependencyResults)]>>,
     err |-> Nil]

ErrorReturn(e) == [result |-> Nil, err |-> e]

\* ---------------------------------------------------------------- server
ToolProjectGetDetails == "project_get_details"

ToolProjectGetDependencies == "project_get_dependencies"

\* arguments["project_permalink"]: absent, not a string, or a string.
Arguments ==
    {[type |-> "missing", v |-> <<>>], [type |-> "number", v |-> <<>>]}
        \cup {[type |-> "string", v |-> p] : p \in Permalinks}

\* Inbound HTTP requests. A body that is not JSON leaves HTTPRequest zero.
HTTPRequests ==
    {[method |-> m, json |-> "ok", tool |-> t, arguments |-> x] :
        m \in {"POST", "GET"},
        t \in {ToolProjectGetDetails, ToolProjectGetDependencies, "invalid_tool"},
        x \in Arguments}
    \cup {[method |-> m, json |-> "bad", tool |-> "",
           arguments |-> [type |-> "missing", v |-> <<>>]] :
              m \in {"POST", "GET"}}

\* Tool calls the MCP framework dispatches to a registered handler.
StdioCalls ==
    {[method |-> "POST", json |-> "ok", tool |-> t, arguments |-> x] :
        t \in {ToolProjectGetDetails, ToolProjectGetDependencies},
        x \in Arguments}

HTTPResponse(status, success, data, error) ==
    [status |-> status, Success |-> success, Data |-> data, Error |-> error]

\* A server that decodes the body before it looks at the method.
RejectBodyFirst(req) ==
    IF req.json # "ok"
    THEN <<HTTPResponse(400, FALSE, Nil, <<"Failed to parse request">>)>>
    ELSE IF req.method # "POST"
    THEN <<HTTPResponse(405, FALSE, Nil, <<"Only POST method is allowed">>)>>
    ELSE IF req.tool # ToolProjectGetDetails /\ req.tool # ToolProjectGetDependencies
    THEN <<HTTPResponse(404, FALSE, Nil, <<"Tool not found", req.tool>>)>>
    ELSE Nil

\* ServeHTTP lines 119-147: the response that rejects a request before any
\* handler is called, or Nil when the request is dispatched.
Reject(req) ==
    IF req.method # "POST"
    THEN <<HTTPResponse(405, FALSE, Nil, <<"Only POST method is allowed">>)>>
    ELSE IF req.json # "ok"
    THEN <<HTTPResponse(400, FALSE, Nil, <<"Failed to parse request">>)>>
    ELSE IF req.tool # ToolProjectGetDetails /\ req.tool # ToolProjectGetDependencies
    THEN <<HTTPResponse(404, FALSE, Nil, <<"Tool not found", req.tool>>)>>
    ELSE Nil

\* A server that hands the inbound request's own context to the handlers.
HandlerCtxOfRequest(m) == "cancellable"

\* The context ServeHTTP hands to the tool handlers: context.Background().
HandlerCtx(m) == IF m = "http" THEN "background" ELSE "cancellable"

\* Validator.ValidateToolArguments
ValidateToolArguments(x) ==
    IF x.type # "string"
    THEN [permalink |-> <<>>,
          err |-> ValidationError("project_permalink", "must be a string")]
    ELSE [permalink |-> x.v, err |-> ValidateProjectPermalink(x.v)]

createMCPResult(text) == [Content |-> <<[Type |-> "text", Text |-> text]>>]

\* What a tool handler returns for the service's return value r.
HandlerReturn(r) ==
    IF r.err # Nil THEN [result |-> Nil, err |-> r.err]
    ELSE [result |-> <<createMCPResult(r.result[1].FormattedText)>>, err |-> Nil]

\* A server that reports a handler error in the body of a 200 response.
FinalResponseAlways200(tr) ==
    IF tr.err # Nil
    THEN HTTPResponse(200, FALSE, Nil, <<"Tool execution failed", tr.err>>)
    ELSE HTTPResponse(200, TRUE, tr.result, Nil)

\* A success response that leaves Data out.
FinalResponseNoData(tr) ==
    IF tr.err # Nil
    THEN HTTPResponse(500, FALSE, Nil, <<"Tool execution failed", tr.err>>)
    ELSE HTTPResponse(200, TRUE, Nil, Nil)

\* ServeHTTP lines 167-181: the response written after the handler returned.
FinalResponse(tr) ==
    IF tr.err # Nil
    THEN HTTPResponse(500, FALSE, Nil, <<"Tool execution failed", tr.err>>)
    ELSE HTTPResponse(200, TRUE, tr.result, Nil)

formatProjectDetails(proj, pl) ==
    [header |-> pl, name |-> proj.Name, description |-> proj.Description]

\* ---------------------------------------------------------------- state machine
N == Len(dependencies)

Units == 0..(N - 1)

\* The state of the original handler's resolver while it is not running.
ChanIdle ==
    /\ catalog = <<>>
    /\ chPc = "idle"
    /\ chLoopI = 0
    /\ chUnit = <<>>
    /\ chResults = <<>>
    /\ chCollectI = 0
    /\ chCollected = <<>>
    /\ chGot = {}
    /\ chFirst = Nil

\* The process starts in main; httpReq is the request a client will send
\* over the transport the environment selects.
Init ==
    /\ env \in Envs
    /\ config = Nil
    /\ proc = "main"
    /\ inbound = "open"
    /\ writers = <<>>
    /\ ChanIdle
    /\ mode = "none"
    /\ httpReq \in IF env.HTTP_MODE = "true" THEN HTTPRequests ELSE StdioCalls
    /\ tool = httpReq.tool
    /\ arguments = httpReq.arguments
    /\ toolRet = Nil
    /\ httpResp = Nil
    /\ rootAnswered = Nil
    /\ rootCtxAt = "none"
    /\ permalink = <<>>
    /\ catalogDeps \in IF tool = ToolProjectGetDependencies THEN EdgeLists ELSE {<<>>}
    /\ ctxKind = "none"
    /\ ctxState = "active"
    /\ pc = "recv"
    /\ rootCalls = 0
    /\ project = Nil
    /\ dependencies = <<>>
    /\ results = <<>>
    /\ wg = 0
    /\ loopI = 0
    /\ unit = <<>>
    /\ issued = <<>>
    /\ answered = <<>>
    /\ ctxAt = <<>>
    /\ firstDone = Nil
    /\ atCancel = Nil
    /\ fetched = Nil
    /\ ret = Nil

\* main: the configuration is loaded; the process ends in log.Fatalf, or the
\* HTTP server or the stdio server is started.
Main ==
    LET lc == LoadConfig(env) IN
    /\ proc = "main"
    /\ IF lc.err # Nil
       THEN /\ proc' = "fatal"
            /\ UNCHANGED <<config, mode>>
       ELSE /\ config' = lc.config
            /\ mode' = IF lc.config[1].HTTPMode THEN "http" ELSE "stdio"
            /\ proc' = "serving"
    /\ UNCHANGED <<env, inbound, writers, chanVars>>
    /\ UNCHANGED <<httpReq, tool, arguments, toolRet, httpResp, rootAnswered,
                   rootCtxAt, permalink, catalogDeps, ctxKind, ctxState, pc,
                   rootCalls, project, dependencies, results, wg, loopI, unit,
                   issued, answered, ctxAt, firstDone, atCancel, fetched, ret>>

\* The HTTP client gives up its request: the context of the inbound request
\* is canceled.
AbortInbound ==
    /\ proc = "serving"
    /\ mode = "http"
    /\ inbound = "open"
    /\ httpResp = Nil
    /\ inbound' = "aborted"
    /\ UNCHANGED <<bootVars, writers, chanVars>>
    /\ UNCHANGED <<mode, httpReq, tool, arguments, toolRet, httpResp,
                   rootAnswered, rootCtxAt, permalink, catalogDeps, ctxKind,
                   ctxState, pc, rootCalls, project, dependencies, results, wg,
                   loopI, unit, issued, answered, ctxAt, firstDone, atCancel,
                   fetched, ret>>

\* ServeHTTP up to the handler call (or the MCP framework's dispatch): the
\* request is rejected, or a handler is called with its context.
Receive ==
    /\ proc = "serving"
    /\ pc = "recv"
    /\ IF mode = "http" /\ Reject(httpReq) # Nil
       THEN /\ httpResp' = Reject(httpReq)
            /\ pc' = "rejected"
            /\ UNCHANGED ctxKind
       ELSE /\ ctxKind' = HandlerCtx(mode)
            /\ pc' = "call"
            /\ UNCHANGED httpResp
    /\ UNCHANGED <<bootVars, inbound, writers, chanVars>>
    /\ UNCHANGED <<mode, httpReq, tool, arguments, toolRet, rootAnswered,
                   rootCtxAt, permalink, catalogDeps, ctxState, rootCalls,
                   project, dependencies, results, wg, loopI, unit, issued,
                   answered, ctxAt, firstDone, atCancel, fetched, ret>>

\* handleGetProjectDetails / handleGetProjectDependencies up to the service
\* call: the arguments are validated and the permalink extracted.
Handle ==
    LET v == ValidateToolArguments(arguments) IN
    /\ pc = "call"
    /\ IF v.err # Nil
       THEN /\ toolRet' = <<[result |-> Nil, err |-> v.err]>>
            /\ pc' = "returned"
            /\ UNCHANGED permalink
       ELSE /\ permalink' = v.permalink
            /\ pc' = IF tool = ToolProjectGetDependencies THEN "start" ELSE "dstart"
            /\ UNCHANGED toolRet
    /\ UNCHANGED <<bootVars, inbound, writers, chanVars>>
    /\ UNCHANGED <<mode, httpReq, tool, arguments, httpResp, rootAnswered,
                   rootCtxAt, catalogDeps, ctxKind, ctxState, rootCalls,
                   project, dependencies, results, wg, loopI, unit, issued,
                   answered, ctxAt, firstDone, atCancel, fetched, ret>>

\* GetProjectDetails up to its request: validation fails, or the query is
\* issued.
DetailsValidate ==
    /\ pc = "dstart"
    /\ IF ValidateProjectPermalink(permalink) # Nil
       THEN /\ ret' = <<ErrorReturn(ValidateProjectPermalink(permalink))>>
            /\ toolRet' = <<HandlerReturn(ret'[1])>>
            /\ pc' = "returned"
            /\ UNCHANGED rootCalls
       ELSE /\ rootCalls' = rootCalls + 1
            /\ pc' = "droot"
            /\ UNCHANGED <<ret, toolRet>>
    /\ UNCHANGED <<bootVars, inbound, writers, chanVars>>
    /\ UNCHANGED <<mode, httpReq, tool, arguments, httpResp, rootAnswered,
                   rootCtxAt, permalink, catalogDeps, ctxKind, ctxState,
                   project, dependencies, results, wg, loopI, unit, issued,
                   answered, ctxAt, firstDone, atCancel, fetched>>

\* The request of GetProjectDetails returns, and so do the service and the
\* handler.
DetailsReturns(a) ==
    LET mr == makeRequest(ctxState, a) IN
    /\ pc = "droot"
    /\ rootAnswered' = IF ctxState = "active" THEN <<a>> ELSE <<NoAnswer>>
    /\ rootCtxAt' = ctxState
    /\ ret' = IF mr.err # Nil THEN <<ErrorReturn(mr.err)>>
              ELSE IF Len(mr.resp[1].Projects) = 0
              THEN <<ErrorReturn(ProjectNotFoundError(permalink))>>
              ELSE <<[result |-> <<[Project |-> mr.resp[1].Projects[1],
                                    FormattedText |->
                                      formatProjectDetails(mr.resp[1].Projects[1],
                                                           permalink)]>>,
                      err |-> Nil]>>
    /\ toolRet' = <<HandlerReturn(ret'[1])>>
    /\ pc' = "returned"
    /\ UNCHANGED <<bootVars, inbound, writers, chanVars>>
    /\ UNCHANGED <<mode, httpReq, tool, arguments, httpResp, permalink,
                   catalogDeps, ctxKind, ctxState, rootCalls, project,
                   dependencies, results, wg, loopI, unit, issued, answered,
                   ctxAt, firstDone, atCancel, fetched>>

\* ServeHTTP after the handler returned: status and body are written.
WriteResponse ==
    /\ mode = "http"
    /\ pc = "returned"
    /\ httpResp = Nil
    /\ httpResp' = <<FinalResponse(toolRet[1])>>
    /\ UNCHANGED <<bootVars, inbound, writers, chanVars>>
    /\ UNCHANGED <<mode, httpReq, tool, arguments, toolRet, rootAnswered,
                   rootCtxAt, permalink, catalogDeps, ctxKind, ctxState, pc,
                   rootCalls, project, dependencies, results, wg, loopI, unit,
                   issued, answered, ctxAt, firstDone, atCancel, fetched, ret>>

\* GetProjectDependencies up to the root request: validation fails, or the
\* root query is issued.
Validate ==
    /\ pc = "start"
    /\ IF ValidateProjectPermalink(permalink) # Nil
       THEN /\ ret' = <<ErrorReturn(ValidateProjectPermalink(permalink))>>
            /\ toolRet' = <<HandlerReturn(ret'[1])>>
            /\ pc' = "returned"
            /\ UNCHANGED rootCalls
       ELSE /\ rootCalls' = rootCalls + 1
            /\ pc' = "root"
            /\ UNCHANGED <<ret, toolRet>>
    /\ UNCHANGED <<bootVars, inbound, writers, chanVars>>
    /\ UNCHANGED <<mode, httpReq, tool, arguments, httpResp, rootAnswered,
                   rootCtxAt>>
    /\ UNCHANGED <<permalink, catalogDeps, ctxKind, ctxState, project,
                   dependencies, results, wg, loopI, unit, issued, answered,
                   ctxAt, firstDone, atCancel, fetched>>

\* The root request returns: error, project not found, no dependencies, or
\* the edges are filtered and fetchDependenciesAsync allocates its results.
RootReturns(a) ==
    LET mr == makeRequest(ctxState, a) IN
    /\ pc = "root"
    /\ IF mr.err # Nil
       THEN /\ ret' = <<ErrorReturn(mr.err)>>
            /\ pc' = "returned"
            /\ UNCHANGED <<project, dependencies, results, unit, issued,
                           answered, ctxAt, writers>>
       ELSE IF Len(mr.resp[1].Projects) = 0
       THEN /\ ret' = <<ErrorReturn(ProjectNotFoundError(permalink))>>
            /\ pc' = "returned"
            /\ UNCHANGED <<project, dependencies, results, unit, issued,
                           answered, ctxAt, writers>>
       ELSE IF Len(mr.resp[1].ProjectDependencies) = 0
       THEN /\ project' = <<mr.resp[1].Projects[1]>>
            /\ ret' = <<[result |-> <<[Project |-> mr.resp[1].Projects[1],
                                       ProjectDependencies |-> <<>>,
                                       FormattedText |->
                                         NoDependenciesText(mr.resp[1].Projects[1])]>>,
                         err |-> Nil]>>
            /\ pc' = "returned"
            /\ UNCHANGED <<dependencies, results, unit, issued, answered,
                           ctxAt, writers>>
       ELSE LET relevant == filterDependencies(mr.resp[1].ProjectDependencies,
                                               mr.resp[1].Projects[1].ID) IN
            /\ project' = <<mr.resp[1].Projects[1]>>
            /\ dependencies' = relevant
            /\ results' = MakeResults(Len(relevant))
            /\ unit' = [k \in 1..Len(relevant) |-> "unlaunched"]
            /\ issued' = [k \in 1..Len(relevant) |-> <<>>]
            /\ answered' = [k \in 1..Len(relevant) |-> Nil]
            /\ ctxAt' = [k \in 1..Len(relevant) |-> "none"]
            /\ writers' = [k \in 1..Len(relevant) |-> <<>>]
            /\ pc' = "fanout"
            /\ UNCHANGED ret
    /\ rootAnswered' = IF ctxState = "active" THEN <<a>> ELSE <<NoAnswer>>
    /\ rootCtxAt' = ctxState
    /\ toolRet' = IF pc' = "returned" THEN <<HandlerReturn(ret'[1])>> ELSE toolRet
    /\ UNCHANGED <<bootVars, inbound, chanVars>>
    /\ UNCHANGED <<mode, httpReq, tool, arguments, httpResp>>
    /\ UNCHANGED <<permalink, catalogDeps, ctxKind, ctxState, rootCalls, wg,
                   loopI, firstDone, atCancel, fetched>>

\* A launch loop that waits while two lookups are running (a pool of two).
LaunchCapped ==
    /\ pc = "fanout"
    /\ loopI < N
    /\ Cardinality({k \in 1..N : unit[k] \in {"spawned", "request"}}) < 2
    /\ wg' = wg + 1
    /\ unit' = [unit EXCEPT ![loopI + 1] = "spawned"]
    /\ loopI' = loopI + 1
    /\ UNCHANGED <<bootVars, inbound, writers, chanVars>>
    /\ UNCHANGED <<mode, httpReq, tool, arguments, toolRet, httpResp,
                   rootAnswered, rootCtxAt>>
    /\ UNCHANGED <<permalink, catalogDeps, ctxKind, ctxState, pc, rootCalls,
                   project, dependencies, results, issued, answered, ctxAt,
                   firstDone, atCancel, fetched, ret>>

\* One iteration of the launch loop: wg.Add(1); go func(i, dep).
Launch ==
    /\ pc = "fanout"
    /\ loopI < N
    /\ wg' = wg + 1
    /\ unit' = [unit EXCEPT ![loopI + 1] = "spawned"]
    /\ loopI' = loopI + 1
    /\ UNCHANGED <<bootVars, inbound, writers, chanVars>>
    /\ UNCHANGED <<mode, httpReq, tool, arguments, toolRet, httpResp,
                   rootAnswered, rootCtxAt>>
    /\ UNCHANGED <<permalink, catalogDeps, ctxKind, ctxState, pc, rootCalls,
                   project, dependencies, results, issued, answered, ctxAt,
                   firstDone, atCancel, fetched, ret>>

\* A unit builds its query and hands the request to the client.
UnitIssue(index) ==
    /\ unit[index + 1] = "spawned"
    /\ unit' = [unit EXCEPT ![index + 1] = "request"]
    /\ issued' = [issued EXCEPT ![index + 1] =
                     Append(@, DepQuery(dependencies[index + 1]))]
    /\ UNCHANGED <<bootVars, inbound, writers, chanVars>>
    /\ UNCHANGED <<mode, httpReq, tool, arguments, toolRet, httpResp,
                   rootAnswered, rootCtxAt>>
    /\ UNCHANGED <<permalink, catalogDeps, ctxKind, ctxState, pc, rootCalls,
                   project, dependencies, results, wg, loopI, answered, ctxAt,
                   firstDone, atCancel, fetched, ret>>

\* A unit that writes its slot and returns without wg.Done().
UnitReturnsNoDone(index, a) ==
    LET mr == makeRequest(LookupCtx(ctxState, results), a) IN
    /\ unit[index + 1] = "request"
    /\ results' = SlotWrite(results, index,
                            UnitResult(index, dependencies[index + 1], mr))
    /\ writers' = [k \in 1..Len(writers) |->
                       IF k \in DOMAIN results' /\ results'[k] # results[k]
                       THEN Append(writers[k], index)
                       ELSE writers[k]]
    /\ answered' = [answered EXCEPT ![index + 1] =
                       IF ctxState = "active" THEN <<a>> ELSE <<NoAnswer>>]
    /\ ctxAt' = [ctxAt EXCEPT ![index + 1] = ctxState]
    /\ firstDone' = IF firstDone = Nil THEN <<index>> ELSE firstDone
    /\ unit' = [unit EXCEPT ![index + 1] = "done"]
    /\ wg' = wg
    /\ UNCHANGED <<bootVars, inbound, chanVars>>
    /\ UNCHANGED <<mode, httpReq, tool, arguments, toolRet, httpResp,
                   rootAnswered, rootCtxAt>>
    /\ UNCHANGED <<permalink, catalogDeps, ctxKind, ctxState, pc, rootCalls,
                   project, dependencies, loopI, issued, atCancel, fetched, ret>>

\* makeRequest returns to a unit: it writes its slot and runs wg.Done().
UnitReturns(index, a) ==
    LET mr == makeRequest(LookupCtx(ctxState, results), a) IN
    /\ unit[index + 1] = "request"
    /\ results' = SlotWrite(results, index,
                            UnitResult(index, dependencies[index + 1], mr))
    /\ writers' = [k \in 1..Len(writers) |->
                       IF k \in DOMAIN results' /\ results'[k] # results[k]
                       THEN Append(writers[k], index)
                       ELSE writers[k]]
    /\ answered' = [answered EXCEPT ![index + 1] =
                       IF ctxState = "active" THEN <<a>> ELSE <<NoAnswer>>]
    /\ ctxAt' = [ctxAt EXCEPT ![index + 1] = ctxState]
    /\ firstDone' = IF firstDone = Nil THEN <<index>> ELSE firstDone
    /\ unit' = [unit EXCEPT ![index + 1] = "done"]
    /\ wg' = wg - 1
    /\ UNCHANGED <<bootVars, inbound, chanVars>>
    /\ UNCHANGED <<mode, httpReq, tool, arguments, toolRet, httpResp,
                   rootAnswered, rootCtxAt>>
    /\ UNCHANGED <<permalink, catalogDeps, ctxKind, ctxState, pc, rootCalls,
                   project, dependencies, loopI, issued, atCancel, fetched, ret>>

\* The caller's context is canceled or its deadline passes.
CtxDone(how) ==
    /\ ctxKind = "cancellable"
    /\ ctxState = "active"
    /\ pc \notin {"returned", "rejected"}
    /\ ctxState' = how
    /\ atCancel' = <<[done |-> {k \in 1..Len(unit) : unit[k] = "done"},
                      results |-> results]>>
    /\ UNCHANGED <<bootVars, inbound, writers, chanVars>>
    /\ UNCHANGED <<mode, httpReq, tool, arguments, toolRet, httpResp,
                   rootAnswered, rootCtxAt>>
    /\ UNCHANGED <<permalink, catalogDeps, ctxKind, pc, rootCalls, project,
                   dependencies, results, wg, loopI, unit, issued, answered,
                   ctxAt, firstDone, fetched, ret>>

\* A resolver that returns after its launch loop, without wg.Wait().
JoinNoWait ==
    /\ pc = "fanout"
    /\ loopI = N
    /\ fetched' = <<results>>
    /\ ret' = <<DependenciesReturn(project[1], dependencies, results)>>
    /\ toolRet' = <<HandlerReturn(ret'[1])>>
    /\ pc' = "returned"
    /\ UNCHANGED <<bootVars, inbound, writers, chanVars>>
    /\ UNCHANGED <<mode, httpReq, tool, arguments, httpResp, rootAnswered,
                   rootCtxAt>>
    /\ UNCHANGED <<permalink, catalogDeps, ctxKind, ctxState, rootCalls,
                   project, dependencies, results, wg, loopI, unit, issued,
                   answered, ctxAt, firstDone, atCancel>>

\* wg.Wait() returns, fetchDependenciesAsync returns results, and
\* GetProjectDependencies formats them and returns.
Join ==
    /\ pc = "fanout"
    /\ loopI = N
    /\ WaitReleased(wg)
    /\ fetched' = <<results>>
    /\ ret' = <<DependenciesReturn(project[1], dependencies, results)>>
    /\ toolRet' = <<HandlerReturn(ret'[1])>>
    /\ pc' = "returned"
    /\ UNCHANGED <<bootVars, inbound, writers, chanVars>>
    /\ UNCHANGED <<mode, httpReq, tool, arguments, httpResp, rootAnswered,
                   rootCtxAt>>
    /\ UNCHANGED <<permalink, catalogDeps, ctxKind, ctxState, rootCalls,
                   project, dependencies, results, wg, loopI, unit, issued,
                   answered, ctxAt, firstDone, atCancel>>

Next ==
    \/ Main
    \/ AbortInbound
    \/ Receive
    \/ Handle
    \/ DetailsValidate
    \/ \E a \in RootAnswers(permalink, <<>>) : DetailsReturns(a)
    \/ WriteResponse
    \/ Validate
    \/ \E a \in RootAnswers(permalink, catalogDeps) : RootReturns(a)
    \/ Launch
    \/ \E index \in Units : UnitIssue(index)
    \/ \E index \in Units :
         \E a \in DepAnswers(dependencies[index + 1].ProvidingProjectID) :
            UnitReturns(index, a)
    \/ \E how \in {"canceled", "deadline"} : CtxDone(how)
    \/ Join

Spec == Init /\ [][Next]_vars

\* Fair scheduling of the resolver's goroutines, and every catalog lookup
\* returns: the launch loop, each unit and the join take their step when they
\* stay able to. The caller's context is under no obligation.
Fairness ==
    /\ WF_vars(Launch)
    /\ WF_vars(\E index \in Units : UnitIssue(index))
    /\ WF_vars(\E index \in Units :
                 \E a \in DepAnswers(dependencies[index + 1].ProvidingProjectID) :
                    UnitReturns(index, a))
    /\ WF_vars(Join)

FairSpec == Spec /\ Fairness

\* ---------------------------------------------------------------- derived notions
\* What makeRequest returned to the unit of slot k, by the caller's context
\* and the catalog's answer at the moment its request ended.
Returned(k) == makeRequest(ctxAt[k], answered[k][1])

StoppedBy(k) == StopCause(ctxAt[k], answered[k][1])

IsFound(r) == r.providingProject # Nil /\ r.err = Nil

IsNotFound(r) == r.providingProject = Nil /\ r.err = Nil

IsFailure(r) == r.err # Nil /\ r.providingProject = Nil

IsCtxFailure(r) ==
    /\ r.err # Nil
    /\ r.err[1].kind = "wrapped"
    /\ r.err[1].cause \in {"canceled", "deadline"}

AllDone == \A k \in 1..N : unit[k] = "done"

MixedOutcomes ==
    /\ \E k \in 1..N : IsFound(fetched[1][k])
    /\ \E k \in 1..N : IsFailure(fetched[1][k])

\* ---------------------------------------------------------------- claims

\* C1: element i of the sequence fetchDependenciesAsync returns wraps exactly
\* input edge i (same dependency id, providing id, optional flag and
\* description), whatever the order in which the lookups completed.
C1_OrderPreserved ==
    fetched # Nil =>
        \A k \in 1..Len(fetched[1]) :
            /\ k <= N
            /\ fetched[1][k].dep = dependencies[k]
            /\ fetched[1][k].index = k - 1

\* The last edge's lookup completed first, with found and failed outcomes.
C1_Witness ==
    /\ fetched # Nil
    /\ N >= 2
    /\ firstDone = <<N - 1>>
    /\ MixedOutcomes
    /\ fetched[1][N].dep = dependencies[N]

\* C2: for an input of N edges exactly N results are returned; for N = 0 the
\* result is empty, no unit was launched and no dependency lookup was issued.
C2_CountInvariant ==
    fetched # Nil =>
        /\ Len(fetched[1]) = Len(dependencies)
        /\ dependencies = <<>> =>
              /\ fetched[1] = <<>>
              /\ loopI = 0
              /\ wg = 0
              /\ \A k \in DOMAIN issued : issued[k] = <<>>
              /\ rootCalls = 1

\* The resolver returned for an empty edge list.
C2_Witness ==
    /\ fetched # Nil
    /\ dependencies = <<>>
    /\ catalogDeps # <<>>
    /\ ret # Nil

\* C3: every returned result is found, not-found or failure, exactly one of
\* them; none carries both an error and a providing project.
C3_ExactlyOneState ==
    fetched # Nil =>
        \A k \in 1..Len(fetched[1]) :
            LET r == fetched[1][k] IN
            /\ ~(r.err # Nil /\ r.providingProject # Nil)
            /\ Cardinality({s \in {"found", "notfound", "failure"} :
                   \/ s = "found" /\ IsFound(r)
                   \/ s = "notfound" /\ IsNotFound(r)
                   \/ s = "failure" /\ IsFailure(r)}) = 1

\* One returned sequence shows all three states.
C3_Witness ==
    /\ fetched # Nil
    /\ \E k \in 1..N : IsFound(fetched[1][k])
    /\ \E k \in 1..N : IsNotFound(fetched[1][k])
    /\ \E k \in 1..N : IsFailure(fetched[1][k])

\* C4: the outcome stored at index i depends on edge i's own lookup only: a
\* lookup that returned projects gives found with the first of them, for the
\* providing id of edge i; one that returned none gives not-found with a nil
\* error; one that returned an error gives a failure with that error and no
\* project.
C4_OwnLookupOnly ==
    fetched # Nil =>
        \A k \in 1..Len(fetched[1]) :
            LET r == fetched[1][k]
                mr == Returned(k) IN
            /\ issued[k] = <<DepQuery(dependencies[k])>>
            /\ (mr.err = Nil /\ Len(mr.resp[1].Projects) >= 1) =>
                   /\ r.providingProject = <<mr.resp[1].Projects[1]>>
                   /\ r.providingProject[1].ID = dependencies[k].ProvidingProjectID
                   /\ r.err = Nil
            /\ (mr.err = Nil /\ Len(mr.resp[1].Projects) = 0) =>
                   IsNotFound(r)
            /\ mr.err # Nil =>
                   /\ r.err = mr.err
                   /\ r.providingProject = Nil

\* Edges 8, 999, 8: found, not found, found, the last one answered first.
C4_Witness ==
    /\ fetched # Nil
    /\ N = 3
    /\ IsFound(fetched[1][1])
    /\ IsNotFound(fetched[1][2])
    /\ IsFound(fetched[1][3])
    /\ firstDone = <<2>>

\* C5: failure isolation. Every stored result is what its own lookup gave,
\* whatever the other lookups did; the step in which a lookup fails changes
\* no other slot, stops no other unit, leaves the context and the launch loop
\* alone; and while edges remain the next unit can still be launched.
C5_OwnResult ==
    \A k \in 1..N :
        unit[k] = "done" =>
            results[k] = UnitResult(k - 1, dependencies[k], Returned(k))

C5_LaunchNotPrevented ==
    (pc = "fanout" /\ loopI < N /\ \E k \in 1..N : results[k].err # Nil)
        => ENABLED Launch

C5_FailStep ==
    \A index \in Units :
        (unit[index + 1] = "request" /\ unit'[index + 1] = "done"
         /\ results'[index + 1].err # Nil) =>
            /\ \A j \in Units \ {index} :
                  /\ results'[j + 1] = results[j + 1]
                  /\ unit'[j + 1] = unit[j + 1]
            /\ ctxState' = ctxState
            /\ loopI' = loopI
            /\ pc' = pc

C5_FailureIsolation ==
    /\ [](C5_OwnResult /\ C5_LaunchNotPrevented)
    /\ [][C5_FailStep]_vars

\* Exactly one of three lookups failed, and it failed first.
C5_Witness ==
    /\ fetched # Nil
    /\ N = 3
    /\ atCancel = Nil
    /\ firstDone = <<0>>
    /\ IsFailure(fetched[1][1])
    /\ IsNotFound(fetched[1][2])
    /\ IsFound(fetched[1][3])

\* C6: once the root lookup returned a project, GetProjectDependencies
\* returns a result and a nil error whatever the dependency lookups did; a
\* lookup's error is found in its own item of the report only.
C6_NilErrorAfterRoot ==
    (pc = "returned" /\ project # Nil) =>
        /\ ret[1].err = Nil
        /\ ret[1].result # Nil
        /\ fetched # Nil =>
              \A k \in 1..N :
                  fetched[1][k].err # Nil =>
                      /\ ret[1].result[1].FormattedText.items[k].kind = "error"
                      /\ ret[1].result[1].FormattedText.items[k].err =
                             fetched[1][k].err

\* All lookups of a request with at least two edges failed.
C6_Witness ==
    /\ pc = "returned"
    /\ fetched # Nil
    /\ N >= 2
    /\ \A k \in 1..N : IsFailure(fetched[1][k])
    /\ ret[1].err = Nil

\* C7: if the context ends before any dependency lookup has completed, the
\* resolver still returns N results, all of them failures without a project.
C7_CancelBeforeAny ==
    (fetched # Nil /\ atCancel # Nil /\ atCancel[1].done = {}) =>
        /\ Len(fetched[1]) = N
        /\ \A k \in 1..N :
              /\ IsFailure(fetched[1][k])
              /\ IsCtxFailure(fetched[1][k])

\* The resolver returned after a cancellation that preceded every completion.
C7_Witness ==
    /\ fetched # Nil
    /\ N >= 2
    /\ ctxState = "canceled"
    /\ atCancel[1].done = {}
    /\ \A k \in 1..N : ctxAt[k] = "canceled"

\* C8: when the context ends while lookups are outstanding, every edge whose
\* lookup had completed keeps its result and every other edge ends as a
\* failure stored at its own index.
C8_CancelMidway ==
    (fetched # Nil /\ atCancel # Nil) =>
        \A k \in 1..N :
            /\ k \in atCancel[1].done =>
                  fetched[1][k] = atCancel[1].results[k]
            /\ k \notin atCancel[1].done =>
                  /\ IsFailure(fetched[1][k])
                  /\ fetched[1][k].index = k - 1
                  /\ fetched[1][k].dep = dependencies[k]

\* The deadline passed after a found and before the other lookups completed.
C8_Witness ==
    /\ fetched # Nil
    /\ N = 3
    /\ ctxState = "deadline"
    /\ Cardinality(atCancel[1].done) = 1
    /\ \E k \in atCancel[1].done : IsFound(fetched[1][k])
    /\ \E k \in 1..N : IsCtxFailure(fetched[1][k])

\* C9 as stated: a lookup that ended without an answer of the catalog was
\* ended by the supplied context, and the end of the context ends every
\* outstanding lookup.
C9_OnlyContextStops ==
    \A k \in 1..N :
        unit[k] = "done" =>
            /\ StoppedBy(k) # "answer" => ctxAt[k] # "active"
            /\ (atCancel # Nil /\ k \notin atCancel[1].done) =>
                  IsCtxFailure(results[k])

\* C9 amended: a lookup is ended without an answer of the catalog by the
\* supplied context or by the client's own Timeout. A result is a context
\* failure exactly when the caller's context had ended (a failure or timeout
\* of one lookup never cancels another); the end of the context ends every
\* outstanding lookup; the Timeout ends the one lookup it bounds.
C9_ContextOrClientTimeout ==
    \A k \in 1..N :
        unit[k] = "done" =>
            /\ StoppedBy(k) # "answer" =>
                  (ctxAt[k] # "active" \/ answered[k][1].transport = "timeout")
            /\ IsCtxFailure(results[k]) <=> ctxAt[k] # "active"
            /\ (atCancel # Nil /\ k \notin atCancel[1].done) =>
                  IsCtxFailure(results[k])
            /\ StoppedBy(k) = "timeout" =>
                  results[k].err = WrapErr("failed to execute request", "timeout")

\* One lookup was ended by the client's Timeout first; another one, which
\* was left running, was found afterwards; the context never ended.
C9_Witness ==
    /\ fetched # Nil
    /\ N >= 2
    /\ atCancel = Nil
    /\ \E k \in 1..N :
          /\ StoppedBy(k) = "timeout"
          /\ firstDone = <<k - 1>>
          /\ \E j \in (1..N) \ {k} : IsFound(fetched[1][j])

\* C10: fetchDependenciesAsync returns only after all N units have finished:
\* at the return every slot holds what its unit wrote, none is zero-valued,
\* and the report is rendered from these written slots.
C10_NoPartialResults ==
    fetched # Nil =>
        /\ AllDone
        /\ loopI = N
        /\ wg = 0
        /\ \A k \in 1..N :
              /\ fetched[1][k] # ZeroResult
              /\ fetched[1][k] = UnitResult(k - 1, dependencies[k], Returned(k))
              /\ ret[1].result[1].FormattedText.items[k] =
                     FormatItem(k, fetched[1][k])

\* The resolver returned three found results, the middle one written first.
C10_Witness ==
    /\ fetched # Nil
    /\ N = 3
    /\ firstDone = <<1>>
    /\ \A k \in 1..N : fetched[1][k].dep.ID # 0 /\ fetched[1][k].err = Nil
    /\ wg = 0

\* ---------------------------------------------------------------- further notions
\* What makeRequest returned for the root query.
RootReturned == makeRequest(rootCtxAt, rootAnswered[1])

\* The root lookup failed: canceled context, transport error, unreadable
\* body, status outside 200..299 or a body that is not JSON.
RootFailed ==
    \/ rootCtxAt # "active"
    \/ rootAnswered[1].transport # "ok"
    \/ rootAnswered[1].read # "ok"
    \/ rootAnswered[1].StatusCode < 200
    \/ rootAnswered[1].StatusCode > 299
    \/ rootAnswered[1].json # "ok"

RECURSIVE SumLen(_, _)
SumLen(f, k) == IF k = 0 THEN 0 ELSE Len(f[k]) + SumLen(f, k - 1)

\* Number of dependency lookups issued so far.
DepCalls == SumLen(issued, Len(issued))

\* The fan-out of GetProjectDependencies has begun.
FannedOut == pc = "fanout" \/ fetched # Nil

\* C11: N edges cause exactly N catalog lookups, one per edge and keyed by the
\* edge's providing project id; a failed lookup is not issued again and two
\* edges with the same providing id are looked up independently.
C11_OneLookupPerEdge ==
    /\ \A k \in 1..N :
          /\ Len(issued[k]) <= 1
          /\ unit[k] \in {"request", "done"} <=> Len(issued[k]) = 1
          /\ Len(issued[k]) = 1 =>
                /\ issued[k][1].searchKey = "id"
                /\ issued[k][1].searchValue = dependencies[k].ProvidingProjectID
    /\ fetched # Nil => DepCalls = N

\* Edges 1 and 3 share the providing id, both were looked up, and the first
\* lookup failed without being issued again.
C11_Witness ==
    /\ fetched # Nil
    /\ N = 3
    /\ dependencies[1].ProvidingProjectID = dependencies[3].ProvidingProjectID
    /\ issued[1] = issued[3]
    /\ Len(issued[1]) = 1
    /\ IsFailure(fetched[1][1])
    /\ DepCalls = 3

\* C12: if the root lookup succeeds without a project, GetProjectDependencies
\* fails with a ProjectNotFoundError naming the requested permalink and the
\* root lookup is the only catalog call of the request.
C12_RootNotFound ==
    (tool = ToolProjectGetDependencies /\ rootAnswered # Nil
     /\ RootReturned.err = Nil /\ Len(RootReturned.resp[1].Projects) = 0) =>
        /\ pc = "returned"
        /\ ret[1].result = Nil
        /\ ret[1].err = <<[kind |-> "ProjectNotFoundError",
                           Permalink |-> arguments.v]>>
        /\ rootCalls = 1
        /\ DepCalls = 0
        /\ loopI = 0
        /\ fetched = Nil

\* The catalog has no project for the permalink " c".
C12_Witness ==
    /\ tool = ToolProjectGetDependencies
    /\ rootAnswered # Nil
    /\ arguments.v = <<" ", "c">>
    /\ ret # Nil
    /\ ret[1].err # Nil
    /\ ret[1].err[1].kind = "ProjectNotFoundError"

\* The project_permalink argument is missing, not a string, empty or blank.
ArgInvalid ==
    \/ arguments.type # "string"
    \/ \A i \in 1..Len(arguments.v) : arguments.v[i] \in {" ", "\t", "\n"}

\* C13: a tool call whose project_permalink is missing, not a string, empty
\* or only whitespace is rejected with a ValidationError for that field, and
\* no catalog request is issued for it.
C13_InvalidArgumentRejected ==
    (ArgInvalid /\ pc \notin {"recv", "rejected"}) =>
        /\ pc \in {"call", "returned"}
        /\ rootCalls = 0
        /\ DepCalls = 0
        /\ ret = Nil
        /\ pc = "returned" =>
              /\ toolRet[1].result = Nil
              /\ toolRet[1].err # Nil
              /\ toolRet[1].err[1].kind = "ValidationError"
              /\ toolRet[1].err[1].Field = "project_permalink"

\* A call with a blank permalink was rejected.
C13_Witness ==
    /\ pc = "returned"
    /\ arguments = [type |-> "string", v |-> <<" ">>]
    /\ toolRet # Nil
    /\ toolRet[1].err[1].kind = "ValidationError"
    /\ rootCalls = 0

\* C14: if the root lookup fails, GetProjectDependencies returns that error
\* and no result, launches no unit and issues no dependency lookup.
C14_RootFailureAborts ==
    (tool = ToolProjectGetDependencies /\ rootAnswered # Nil /\ RootFailed) =>
        /\ pc = "returned"
        /\ ret[1].result = Nil
        /\ ret[1].err # Nil
        /\ ret[1].err = RootReturned.err
        /\ project = Nil
        /\ loopI = 0
        /\ wg = 0
        /\ unit = <<>>
        /\ DepCalls = 0
        /\ fetched = Nil
        /\ rootCalls = 1

\* The catalog answered the root query with status 404 and a body that lists
\* the project and an edge of its own.
C14_Witness ==
    /\ tool = ToolProjectGetDependencies
    /\ rootAnswered # Nil
    /\ rootAnswered[1].StatusCode = 404
    /\ \E k \in 1..Len(catalogDeps) : catalogDeps[k].DependentProjectID = RootID
    /\ ret[1].err = APIError(404)

\* Positions of the catalog's edges whose dependent is the root project.
OwnPositions ==
    {i \in 1..Len(catalogDeps) : catalogDeps[i].DependentProjectID = RootID}

\* C15: filterDependencies returns exactly the subsequence of the edges whose
\* DependentProjectID is the project id: all of them, no other, in source
\* order, none duplicated or altered.
C15_FilterSubsequence ==
    FannedOut =>
        /\ Len(dependencies) = Cardinality(OwnPositions)
        /\ \A k \in 1..Len(dependencies) :
              \E i \in OwnPositions :
                  /\ Cardinality({j \in OwnPositions : j < i}) = k - 1
                  /\ dependencies[k] = catalogDeps[i]

\* A foreign edge between two own edges was dropped.
C15_Witness ==
    /\ FannedOut
    /\ Len(catalogDeps) = 3
    /\ OwnPositions = {1, 3}
    /\ Len(dependencies) = 2
    /\ dependencies[2].ID = 103

\* C16: the report has one numbered item per result, numbered 1..N in edge
\* order under a header stating N; item i is an error entry iff result i is a
\* failure, a not-found entry iff it is not-found and a project entry iff it
\* is found, each naming edge i's providing project id.
C16_ReportItems ==
    fetched # Nil =>
        LET t == ret[1].result[1].FormattedText IN
        /\ t.count = N
        /\ Len(t.items) = N
        /\ \A k \in 1..N :
              /\ t.items[k].n = k
              /\ t.items[k].id = dependencies[k].ProvidingProjectID
              /\ t.items[k].kind = "error" <=> IsFailure(fetched[1][k])
              /\ t.items[k].kind = "notfound" <=> IsNotFound(fetched[1][k])
              /\ t.items[k].kind = "project" <=> IsFound(fetched[1][k])

\* A report with an error item, a not-found item and a project item.
C16_Witness ==
    /\ fetched # Nil
    /\ N = 3
    /\ ret[1].result[1].FormattedText.items[1].kind = "error"
    /\ ret[1].result[1].FormattedText.items[2].kind = "notfound"
    /\ ret[1].result[1].FormattedText.items[3].kind = "project"
    /\ ret[1].result[1].FormattedText.count = 3

\* The request names a tool of the server and a permalink that is not blank.
ValidToolCall ==
    /\ httpReq.method = "POST"
    /\ httpReq.json = "ok"
    /\ tool \in {ToolProjectGetDetails, ToolProjectGetDependencies}
    /\ ~ArgInvalid

\* C17 as stated: an HTTP POST naming one of the two tools with a valid
\* permalink of a project the catalog holds is answered with 200 and
\* success=true.
C17_ExistingProjectIs200 ==
    (mode = "http" /\ httpResp # Nil /\ ValidToolCall
     /\ arguments.v = RootPermalink) =>
        /\ httpResp[1].status = 200
        /\ httpResp[1].Success = TRUE

\* C17 amended: such a request is answered with 200 and success=true, the
\* handler's result as data, whenever its root lookup succeeds and returns
\* the project; for project_get_dependencies whatever number of dependency
\* lookups fail.
C17_RootFoundIs200 ==
    (mode = "http" /\ httpResp # Nil /\ ValidToolCall /\ rootAnswered # Nil
     /\ ~RootFailed /\ Len(rootAnswered[1].Projects) >= 1) =>
        /\ httpResp[1].status = 200
        /\ httpResp[1].Success = TRUE
        /\ httpResp[1].Error = Nil
        /\ httpResp[1].Data # Nil
        /\ httpResp[1].Data = toolRet[1].result

\* A dependencies request all of whose lookups failed was answered with 200.
C17_Witness ==
    /\ mode = "http"
    /\ tool = ToolProjectGetDependencies
    /\ httpResp # Nil
    /\ httpResp[1].status = 200
    /\ fetched # Nil
    /\ N >= 2
    /\ \A k \in 1..N : IsFailure(fetched[1][k])

\* C18: ServeHTTP rejects a request that is not a POST with 405, else a body
\* that is not JSON with 400, else an unknown tool with 404 and the text
\* "Tool not found: <tool>"; a rejection has success=false, calls no handler
\* and issues no catalog request; other requests are not rejected.
C18_Rejections ==
    (mode = "http" /\ pc # "recv") =>
        /\ httpReq.method # "POST" =>
              pc = "rejected" /\ httpResp[1].status = 405
        /\ (httpReq.method = "POST" /\ httpReq.json # "ok") =>
              pc = "rejected" /\ httpResp[1].status = 400
        /\ (httpReq.method = "POST" /\ httpReq.json = "ok"
            /\ tool \notin {ToolProjectGetDetails, ToolProjectGetDependencies}) =>
              /\ pc = "rejected"
              /\ httpResp[1].status = 404
              /\ httpResp[1].Error = <<"Tool not found", tool>>
        /\ (httpReq.method = "POST" /\ httpReq.json = "ok"
            /\ tool \in {ToolProjectGetDetails, ToolProjectGetDependencies}) =>
              pc # "rejected"
        /\ pc = "rejected" =>
              /\ httpResp[1].Success = FALSE
              /\ httpResp[1].Data = Nil
              /\ toolRet = Nil
              /\ ret = Nil
              /\ ctxKind = "none"
              /\ rootCalls = 0
              /\ DepCalls = 0

\* A GET whose body is not JSON was answered with 405.
C18_Witness ==
    /\ mode = "http"
    /\ pc = "rejected"
    /\ httpReq.method = "GET"
    /\ httpReq.json = "bad"
    /\ httpResp[1].status = 405

\* C19: when the root project exists and no edge has it as the dependent
\* (also when the response carries only edges of other projects), the
\* operation answers with the "No dependencies found" text and issues no
\* dependency lookup.
C19_NoOwnEdgesMessage ==
    (tool = ToolProjectGetDependencies /\ ret # Nil /\ project # Nil
     /\ OwnPositions = {}) =>
        /\ ret[1].err = Nil
        /\ ret[1].result[1].FormattedText = NoDependenciesText(project[1])
        /\ DepCalls = 0

\* C20: the fan-out has no cap: while edges remain the next unit can be
\* launched whatever number of lookups is outstanding, and a launched unit can
\* issue its lookup whatever the other units are doing.
C20_UnboundedFanOut ==
    /\ (pc = "fanout" /\ loopI < N) => ENABLED Launch
    /\ \A index \in Units :
          unit[index + 1] = "spawned" => ENABLED UnitIssue(index)

\* All lookups of the longest edge list are outstanding at the same time.
C20_Witness ==
    /\ pc = "fanout"
    /\ N = MaxDeps
    /\ \A k \in 1..N : unit[k] = "request"
    /\ wg = N

\* ---------------------------------------------------------------- resolver liveness, configuration
\* No unit waits for a lock or for another unit: a launched unit can issue its
\* lookup and its lookup can return whatever the others do; the join is
\* released exactly when all N units have finished.
C21_NoBlocking ==
    /\ \A index \in Units :
          /\ unit[index + 1] = "spawned" => ENABLED UnitIssue(index)
          /\ unit[index + 1] = "request" =>
                ENABLED (\E a \in DepAnswers(dependencies[index + 1].ProvidingProjectID) :
                            UnitReturns(index, a))
    /\ (ENABLED Join) <=> (pc = "fanout" /\ AllDone)
    /\ (pc = "fanout" /\ AllDone) => (loopI = N /\ wg = 0)
    /\ pc = "fanout" => wg = Cardinality({k \in 1..N : unit[k] \in {"spawned", "request"}})

\* C21: under fair scheduling and with every lookup returning (a response, an
\* error, a timeout or a cancellation), fetchDependenciesAsync eventually
\* returns; no unit blocks on a lock or on another unit, and the join is
\* released exactly when the N-th unit finishes.
C21_Termination ==
    /\ []C21_NoBlocking
    /\ (pc = "fanout") ~> (fetched # Nil)

\* The resolver returned after lookups that ended by an answer, by the
\* client's Timeout and by the end of the context.
C21_Witness ==
    /\ fetched # Nil
    /\ N = 3
    /\ \E k \in 1..N : StoppedBy(k) = "timeout"
    /\ \E k \in 1..N : StoppedBy(k) = "ctx"
    /\ \E k \in 1..N : IsFound(fetched[1][k])

\* C22: no catalog request is issued without a non-empty CEREBRO_TOKEN: with
\* the variable unset or empty LoadConfig fails with "CEREBRO_TOKEN environment
\* variable is required" and neither server is started; otherwise HTTP mode is
\* selected iff HTTP_MODE is "true", and stdio mode in every other case.
C22_TokenRequired ==
    /\ (rootCalls + DepCalls > 0 \/ pc # "recv") =>
          /\ env.CEREBRO_TOKEN # ""
          /\ config # Nil
          /\ config[1].CerebroToken = env.CEREBRO_TOKEN
    /\ (env.CEREBRO_TOKEN = "" /\ proc # "main") =>
          /\ proc = "fatal"
          /\ LoadConfig(env).err = <<"CEREBRO_TOKEN environment variable is required">>
          /\ config = Nil
          /\ mode = "none"
    /\ proc = "fatal" => env.CEREBRO_TOKEN = ""
    /\ proc = "serving" =>
          /\ mode = "http" <=> env.HTTP_MODE = "true"
          /\ mode = "stdio" <=> env.HTTP_MODE # "true"

\* The process ended in main although HTTP_MODE asked for the HTTP server.
C22_Witness ==
    /\ proc = "fatal"
    /\ env = [CEREBRO_TOKEN |-> "", HTTP_MODE |-> "true"]
    /\ mode = "none"
    /\ rootCalls = 0

\* ---------------------------------------------------------------- slot ownership
\* Slot k is written by the unit of edge k only, once, when that unit ends;
\* until then it holds the zero value.
C23_Slots ==
    /\ Len(writers) = Len(results)
    /\ \A k \in 1..Len(writers) :
          /\ Len(writers[k]) <= 1
          /\ \A j \in 1..Len(writers[k]) : writers[k][j] = k - 1
          /\ unit[k] = "done" <=> writers[k] = <<k - 1>>
          /\ unit[k] # "done" => results[k] = ZeroResult
    /\ fetched # Nil => \A k \in 1..N : writers[k] = <<k - 1>>

\* The step that reads the slots (the return of the resolver and the
\* formatting) is taken when all units have written, and no slot is written
\* after it.
C23_ReadAfterJoin ==
    /\ (fetched' # fetched \/ (pc = "fanout" /\ ret' # ret)) =>
          /\ AllDone
          /\ fetched' = <<results>>
          /\ results' = results
    /\ fetched # Nil => (results' = results /\ writers' = writers)

\* C23: slot i is written exactly once, by the unit launched for edge i only;
\* no two units write the same slot; the resolver and the formatter read the
\* slots only after the join.
C23_SlotOwnership ==
    /\ []C23_Slots
    /\ [][C23_ReadAfterJoin]_vars

\* Three units wrote their own slots, the last unit first.
C23_Witness ==
    /\ fetched # Nil
    /\ writers = <<(<<0>>), (<<1>>), (<<2>>)>>
    /\ firstDone = <<2>>
    /\ \A k \in 1..3 : results[k].index = k - 1

\* ---------------------------------------------------------------- determinism
\* The result sequence as a function of the catalog's edge list and of what
\* each edge's own lookup returned.
ExpectedResults ==
    LET relevant == filterDependencies(catalogDeps, RootID) IN
    [k \in 1..Len(relevant) |-> UnitResult(k - 1, relevant[k], Returned(k))]

\* The report as a function of the root project and the expected results.
ExpectedReport ==
    [header |-> <<RootProject.Name, RootProject.ID, RootProject.Permalink,
                  RootProject.Description>>,
     count |-> Len(ExpectedResults),
     items |-> [k \in 1..Len(ExpectedResults) |-> FormatItem(k, ExpectedResults[k])]]

\* C24: result sequence and report are functions of the root project, the
\* edge list and the per-edge lookup outcomes; the scheduling and the
\* completion order of the lookups have no part in them.
C24_Deterministic ==
    fetched # Nil =>
        /\ fetched[1] = ExpectedResults
        /\ ret[1].err = Nil
        /\ ret[1].result[1].FormattedText = ExpectedReport
        /\ toolRet[1].result = <<createMCPResult(ExpectedReport)>>

\* The lookups completed in the order 1, then 2 or 0, with three different
\* outcomes.
C24_Witness ==
    /\ fetched # Nil
    /\ N = 3
    /\ firstDone = <<1>>
    /\ IsNotFound(fetched[1][1])
    /\ IsFailure(fetched[1][2])
    /\ IsFound(fetched[1][3])
    /\ ret[1].result[1].FormattedText = ExpectedReport

\* ---------------------------------------------------------------- phases
\* C25: validation precedes the one root call, which precedes the fan-out,
\* which precedes the join and the formatting: no dependency lookup is issued
\* and no unit launched before the root call returned a project, the report is
\* formatted after the last lookup finished, and a request whose root has N
\* relevant edges has issued exactly 1 + N catalog calls when it returns.
C25_PhaseOrder ==
    /\ rootCalls <= 1
    /\ rootCalls = 1 =>
          /\ ~ArgInvalid
          /\ ValidateProjectPermalink(permalink) = Nil
          /\ pc \notin {"recv", "call", "start", "dstart"}
    /\ pc \in {"root", "droot"} => (rootCalls = 1 /\ rootAnswered = Nil)
    /\ (DepCalls > 0 \/ loopI > 0 \/ pc = "fanout") =>
          /\ rootCalls = 1
          /\ rootAnswered # Nil
          /\ ~RootFailed
          /\ project = <<rootAnswered[1].Projects[1]>>
    /\ (tool = ToolProjectGetDependencies /\ ret # Nil /\ ret[1].result # Nil) =>
          /\ AllDone
          /\ loopI = N
          /\ DepCalls = N
          /\ rootCalls + DepCalls = 1 + Cardinality(OwnPositions)
    /\ (pc = "fanout" /\ ret = Nil) => fetched = Nil

\* A request with three relevant edges returned after four catalog calls.
C25_Witness ==
    /\ tool = ToolProjectGetDependencies
    /\ pc = "returned"
    /\ Cardinality(OwnPositions) = 3
    /\ rootCalls + DepCalls = 4
    /\ ret[1].result # Nil

\* ---------------------------------------------------------------- client classification
\* The answer is one the client must classify as failed.
LookupFailed(a) ==
    \/ a.transport # "ok"
    \/ a.read # "ok"
    \/ a.StatusCode < 200
    \/ a.StatusCode > 299
    \/ a.json # "ok"

\* The error the client returns for a failed answer, by the first thing that
\* went wrong.
ClassifiedError(a) ==
    IF a.transport # "ok" THEN WrapErr("failed to execute request", a.transport)
    ELSE IF a.read # "ok" THEN WrapErr("failed to read response", a.read)
    ELSE IF a.StatusCode < 200 \/ a.StatusCode > 299 THEN APIError(a.StatusCode)
    ELSE WrapErr("failed to parse JSON response", a.json)

\* C26: a lookup whose context is live fails exactly when the request cannot
\* be executed, the body cannot be read, the status is outside 200..299 or a
\* 2xx body is not JSON; a non-2xx answer is an APIError with its status
\* whatever its body holds; projects are returned for a 2xx answer with a
\* parsable body only.
C26_Classification ==
    /\ (rootAnswered # Nil /\ rootCtxAt = "active") =>
          LET a == rootAnswered[1] IN
          /\ LookupFailed(a) => (ret # Nil /\ ret[1].err = ClassifiedError(a))
          /\ (~LookupFailed(a) /\ ret # Nil) =>
                (ret[1].err = Nil \/ ret[1].err[1].kind = "ProjectNotFoundError")
          /\ project # Nil =>
                /\ a.StatusCode \in 200..299
                /\ a.json = "ok"
                /\ project = <<a.Projects[1]>>
    /\ \A k \in 1..N :
          (unit[k] = "done" /\ ctxAt[k] = "active") =>
              LET a == answered[k][1] IN
              /\ LookupFailed(a) <=> results[k].err # Nil
              /\ LookupFailed(a) => results[k].err = ClassifiedError(a)
              /\ results[k].providingProject # Nil =>
                    /\ a.StatusCode \in 200..299
                    /\ a.json = "ok"
                    /\ results[k].providingProject = <<a.Projects[1]>>

\* A dependency lookup answered 500 with a well-formed project list is an
\* APIError, after a root answer that was parsed.
C26_Witness ==
    /\ fetched # Nil
    /\ \E k \in 1..N :
          /\ ctxAt[k] = "active"
          /\ answered[k][1].StatusCode = 500
          /\ Len(answered[k][1].Projects) >= 1
          /\ fetched[1][k].err = APIError(500)

\* ---------------------------------------------------------------- HTTP mode
\* Nothing ends a lookup of an HTTP request but the catalog or the client.
C29_Background ==
    mode = "http" =>
        /\ ctxKind \in {"none", "background"}
        /\ pc \notin {"recv", "rejected"} => ctxKind = "background"
        /\ ctxState = "active"
        /\ atCancel = Nil
        /\ rootCtxAt \in {"none", "active"}
        /\ rootAnswered # Nil => rootAnswered[1] # NoAnswer
        /\ ret # Nil => ~IsCtxFailure(ret[1])
        /\ \A k \in 1..N :
              /\ ctxAt[k] \in {"none", "active"}
              /\ ~IsCtxFailure(results[k])
              /\ unit[k] = "done" => StoppedBy(k) \in {"answer", "timeout"}
        /\ ~ENABLED CtxDone("canceled")
        /\ ~ENABLED CtxDone("deadline")

\* The step in which the inbound request is aborted changes nothing the
\* handlers and the lookups see.
C29_AbortStep ==
    (inbound = "open" /\ inbound' = "aborted") =>
        UNCHANGED <<ctxKind, ctxState, pc, unit, results, wg, loopI, ret, toolRet>>

\* C29: in HTTP mode the handlers get a background context, never canceled
\* and without deadline: aborting the inbound request cancels no root or
\* dependency lookup, every lookup ends by a catalog response, a transport
\* error or the client's own timeout, and no result is a cancellation failure.
C29_HTTPNeverCanceled ==
    /\ []C29_Background
    /\ [][C29_AbortStep]_vars

\* The inbound request was aborted and its dependency lookups were found
\* all the same.
C29_Witness ==
    /\ mode = "http"
    /\ inbound = "aborted"
    /\ httpResp = Nil
    /\ fetched # Nil
    /\ N >= 2
    /\ \A k \in 1..N : IsFound(fetched[1][k])

\* The response has been written and is left as it is.
C30_WrittenOnce == httpResp # Nil => httpResp' = httpResp

\* What ServeHTTP has written for the request.
C30_Response ==
    (mode = "http" /\ httpResp # Nil) =>
        /\ Len(httpResp) = 1
        /\ httpResp[1].status \in {200, 400, 404, 405, 500}
        /\ httpResp[1].Success = TRUE <=> httpResp[1].status = 200
        /\ toolRet # Nil =>
              /\ toolRet[1].err # Nil <=> httpResp[1].status = 500
              /\ toolRet[1].err # Nil =>
                    /\ httpResp[1].Success = FALSE
                    /\ httpResp[1].Data = Nil
                    /\ httpResp[1].Error = <<"Tool execution failed", toolRet[1].err>>
        /\ httpResp[1].status = 500 =>
              /\ toolRet # Nil
              /\ toolRet[1].err[1].kind \in
                    {"ValidationError", "ProjectNotFoundError", "APIError", "wrapped"}

\* C30: over HTTP success is true iff the status is 200, one status is written
\* per request, and every error of a tool handler (validation error, project
\* not found, root lookup failure) is answered with 500, success=false and an
\* error text that starts with "Tool execution failed:".
C30_HTTPStatus ==
    /\ []C30_Response
    /\ [][C30_WrittenOnce]_vars

\* A request for a project the catalog does not hold was answered with 500.
C30_Witness ==
    /\ mode = "http"
    /\ httpResp # Nil
    /\ httpResp[1].status = 500
    /\ httpResp[1].Success = FALSE
    /\ toolRet[1].err[1].kind = "ProjectNotFoundError"

\* ---------------------------------------------------------------- original handler
\* The resolver inside handleGetProjectDependencies of the original handler:
\* one goroutine per edge sends its dependencyResult on a buffered channel,
\* and a collector loop stores each received message at its index.

StatusError(status) == <<[kind |-> "errorString", StatusCode |-> status]>>

\* makeAuthenticatedRequest: the original client, without a context; a
\* status outside 200..299 is a plain error value.
makeAuthenticatedRequest(a) ==
    IF a.transport # "ok"
    THEN [resp |-> Nil, err |-> WrapErr("failed to execute request", a.transport)]
    ELSE IF a.read # "ok"
    THEN [resp |-> Nil, err |-> WrapErr("failed to read response", a.read)]
    ELSE IF a.StatusCode < 200 \/ a.StatusCode >= 300
    THEN [resp |-> Nil, err |-> StatusError(a.StatusCode)]
    ELSE IF a.json # "ok"
    THEN [resp |-> Nil, err |-> WrapErr("failed to parse JSON response", a.json)]
    ELSE [resp |-> <<[Projects |-> a.Projects,
                      ProjectDependencies |-> a.ProjectDependencies]>>,
          err |-> Nil]

\* A channel with room for one message.
ChanCapacityOne(n) == IF n = 0 THEN 0 ELSE 1

\* make(chan dependencyResult, len(relevantDependencies))
ChanCapacity(n) == n

\* A collector that stores the i-th message received at position i.
CollectStoreArrival(rs, i, res) == [rs EXCEPT ![i + 1] = res]

\* dependencyResults[res.index] = res
CollectStore(rs, i, res) == [rs EXCEPT ![res.index + 1] = res]

\* The message the unit of an edge sends.
ChanMessage(index) ==
    UnitResult(index, dependencies[index + 1],
               makeAuthenticatedRequest(catalog[index + 1]))

\* The answers of a catalog that answers each lookup in one fixed way.
ChanAnswers(id) == {a \in DepAnswers(id) : a.transport # "timeout"}

\* Both resolvers are about to start on the same relevant edges: the state
\* GetProjectDependencies is in after a root lookup that returned the project
\* and its edges, with the catalog's answer to each edge's lookup fixed.
ChanInit ==
    /\ env = [CEREBRO_TOKEN |-> "tok", HTTP_MODE |-> "true"]
    /\ config = LoadConfig(env).config
    /\ proc = "serving"
    /\ inbound = "open"
    /\ mode = "http"
    /\ httpReq = [method |-> "POST", json |-> "ok",
                  tool |-> ToolProjectGetDependencies,
                  arguments |-> [type |-> "string", v |-> RootPermalink]]
    /\ tool = httpReq.tool
    /\ arguments = httpReq.arguments
    /\ toolRet = Nil
    /\ httpResp = Nil
    /\ catalogDeps \in {l \in EdgeLists : Len(l) \in 1..MaxChanDeps}
    /\ rootAnswered = <<Answer("ok", "ok", 200, "ok", <<RootProject>>, catalogDeps)>>
    /\ rootCtxAt = "active"
    /\ permalink = RootPermalink
    /\ ctxKind = HandlerCtx(mode)
    /\ ctxState = "active"
    /\ pc = "fanout"
    /\ rootCalls = 1
    /\ project = <<RootProject>>
    /\ dependencies = filterDependencies(catalogDeps, RootID)
    /\ results = MakeResults(N)
    /\ writers = [k \in 1..N |-> <<>>]
    /\ wg = 0
    /\ loopI = 0
    /\ unit = [k \in 1..N |-> "unlaunched"]
    /\ issued = [k \in 1..N |-> <<>>]
    /\ answered = [k \in 1..N |-> Nil]
    /\ ctxAt = [k \in 1..N |-> "none"]
    /\ firstDone = Nil
    /\ atCancel = Nil
    /\ fetched = Nil
    /\ ret = Nil
    /\ catalog \in {c \in [1..N -> UNION {ChanAnswers(ProvidingAt(q)) : q \in 1..MaxDeps}] :
                      \A k \in 1..N :
                          c[k] \in ChanAnswers(dependencies[k].ProvidingProjectID)}
    /\ chPc = "launch"
    /\ chLoopI = 0
    /\ chUnit = [k \in 1..N |-> "unlaunched"]
    /\ chResults = <<>>
    /\ chCollectI = 0
    /\ chCollected = <<>>
    /\ chGot = {}
    /\ chFirst = Nil

serviceVars ==
    <<mode, httpReq, tool, arguments, toolRet, httpResp, rootAnswered,
      rootCtxAt, permalink, catalogDeps, ctxKind, ctxState, pc, rootCalls,
      project, dependencies, results, wg, loopI, unit, issued, answered, ctxAt,
      firstDone, atCancel, fetched, ret>>

\* One iteration of the original launch loop: go func(i, dep).
ChanLaunch ==
    /\ chPc = "launch"
    /\ chLoopI < N
    /\ chUnit' = [chUnit EXCEPT ![chLoopI + 1] = "running"]
    /\ chLoopI' = chLoopI + 1
    /\ UNCHANGED <<catalog, chPc, chResults, chCollectI, chCollected, chGot, chFirst>>
    /\ UNCHANGED <<bootVars, inbound, writers, serviceVars>>

\* After the launch loop: dependencyResults := make([]dependencyResult, n).
ChanMake ==
    /\ chPc = "launch"
    /\ chLoopI = N
    /\ chCollected' = MakeResults(N)
    /\ chPc' = "collect"
    /\ UNCHANGED <<catalog, chLoopI, chUnit, chResults, chCollectI, chGot, chFirst>>
    /\ UNCHANGED <<bootVars, inbound, writers, serviceVars>>

\* makeAuthenticatedRequest returns to a unit, which reaches its send.
ChanUnitReturns(index) ==
    /\ chUnit[index + 1] = "running"
    /\ chUnit' = [chUnit EXCEPT ![index + 1] = "send"]
    /\ UNCHANGED <<catalog, chPc, chLoopI, chResults, chCollectI, chCollected,
                   chGot, chFirst>>
    /\ UNCHANGED <<bootVars, inbound, writers, serviceVars>>

\* results <- dependencyResult{...}: the send goes through when the channel
\* has room, and the unit ends.
ChanUnitSend(index) ==
    /\ chUnit[index + 1] = "send"
    /\ Len(chResults) < ChanCapacity(N)
    /\ chResults' = Append(chResults, ChanMessage(index))
    /\ chUnit' = [chUnit EXCEPT ![index + 1] = "done"]
    /\ UNCHANGED <<catalog, chPc, chLoopI, chCollectI, chCollected, chGot, chFirst>>
    /\ UNCHANGED <<bootVars, inbound, writers, serviceVars>>

\* One iteration of the collector loop: res := <-results;
\* dependencyResults[res.index] = res.
ChanCollect ==
    /\ chPc = "collect"
    /\ chCollectI < N
    /\ chResults # <<>>
    /\ chCollected' = CollectStore(chCollected, chCollectI, Head(chResults))
    /\ chResults' = Tail(chResults)
    /\ chGot' = chGot \cup {Head(chResults).index}
    /\ chFirst' = IF chFirst = Nil THEN <<Head(chResults).index>> ELSE chFirst
    /\ chCollectI' = chCollectI + 1
    /\ UNCHANGED <<catalog, chPc, chLoopI, chUnit>>
    /\ UNCHANGED <<bootVars, inbound, writers, serviceVars>>

\* The collector loop ends and the handler goes on to render the results.
ChanFinish ==
    /\ chPc = "collect"
    /\ chCollectI = N
    /\ chPc' = "done"
    /\ UNCHANGED <<catalog, chLoopI, chUnit, chResults, chCollectI, chCollected,
                   chGot, chFirst>>
    /\ UNCHANGED <<bootVars, inbound, writers, serviceVars>>

\* Both resolvers run, each edge's lookup getting the catalog's fixed answer.
ChanNext ==
    \/ Launch
    \/ \E index \in Units : UnitIssue(index)
    \/ \E index \in Units : UnitReturns(index, catalog[index + 1])
    \/ Join
    \/ ChanLaunch
    \/ ChanMake
    \/ \E index \in Units : ChanUnitReturns(index)
    \/ \E index \in Units : ChanUnitSend(index)
    \/ ChanCollect
    \/ ChanFinish

ChanSpec == ChanInit /\ [][ChanNext]_vars

\* The indices carried by the messages in the channel.
InChannel == {chResults[j].index : j \in 1..Len(chResults)}

\* C27: the channel has capacity N and each unit sends one message, so a unit
\* at its send is never blocked; the messages sent so far carry pairwise
\* distinct indices of finished units; the collector ends after exactly N
\* messages with the indices 0..N-1, and then every unit has ended and the
\* channel is empty.
C27_ChannelNeverBlocks ==
    chPc # "idle" =>
        /\ Len(chResults) <= N
        /\ \A index \in Units :
              chUnit[index + 1] = "send" => ENABLED ChanUnitSend(index)
        /\ Cardinality(InChannel) = Len(chResults)
        /\ Cardinality(chGot) = chCollectI
        /\ InChannel \cap chGot = {}
        /\ InChannel \cup chGot = {k - 1 : k \in {j \in 1..N : chUnit[j] = "done"}}
        /\ chPc = "done" =>
              /\ chCollectI = N
              /\ chGot = 0..(N - 1)
              /\ chResults = <<>>
              /\ \A k \in 1..N : chUnit[k] = "done"

\* The channel is full: it holds the messages of all units, the last unit's
\* first, before the collector has taken any.
C27_Witness ==
    /\ N = MaxChanDeps
    /\ Len(chResults) = N
    /\ chResults[1].index = N - 1
    /\ chCollectI = 0
    /\ \A k \in 1..N : chUnit[k] = "done"

\* Each edge's lookup returned the same to both resolvers.
SameOutcomes ==
    \A k \in 1..N : makeAuthenticatedRequest(catalog[k]) = Returned(k)

\* C28: for the same edges and the same per-edge lookup outcomes, the sequence
\* the original collector assembles equals the sequence fetchDependenciesAsync
\* returns, in every interleaving of the units of both.
C28_ResolversEquivalent ==
    (fetched # Nil /\ chPc = "done" /\ SameOutcomes) =>
        /\ chCollected = fetched[1]
        /\ \A k \in 1..N : chCollected[k].dep = dependencies[k]

\* Both resolvers finished; the collector received the last edge's message
\* first, the first edge's slot was written first, and the outcomes differ.
C28_Witness ==
    /\ fetched # Nil
    /\ chPc = "done"
    /\ N >= 2
    /\ SameOutcomes
    /\ chFirst = <<N - 1>>
    /\ firstDone = <<0>>
    /\ IsFailure(fetched[1][1])
    /\ IsFound(fetched[1][N])
    /\ chCollected = fetched[1]

====
